---- MODULE Spec2Model ----
(***************************************************************************)
(* Model of profRegr (PReMiuM.cpp): the driver that configures the MCMC    *)
(* sampler, imports the data, composes the ordered proposal registry,      *)
(* opens the output, initialises the chain, runs the sweeps, appends the   *)
(* run summary and closes the output.                                      *)
(*                                                                         *)
(* The driver (option handling, the order of the calls, the conditional    *)
(* registration of the proposals) is translated from PReMiuM.cpp.  The     *)
(* mcmcSampler class template (MCMC/sampler.h) is not part of the given    *)
(* sources; its addProposal precondition and its sweep loop are modelled   *)
(* from sections 4.2 and 4.3 of the specification.                         *)
(*                                                                         *)
(* Units: weight 1.0 is written 1; fixedAlpha is held in tenths, so that   *)
(* 2.5 is 25 and -1 is -10 (only its sign is read by the driver).          *)
(***************************************************************************)
EXTENDS Integers, Sequences, FiniteSets

VARIABLES
    options,        \* pReMiuMOptions returned by processCommandLine(inputStr)
    sampler,        \* scalar settings held by pReMiuMSampler (lines 77-94)
    dataset,        \* shape of the imported pReMiuMData (line 100)
    proposalParams, \* whether the tuning state has been sized (lines 105-107)
    registry,       \* ordered proposal descriptors held by pReMiuMSampler
    line,           \* index of the next addProposal call site to consider
    pc,             \* position of profRegr
    chainInit,      \* whether initialiseChain has produced the first state
    sweep,          \* number of the sweep last started by run()
    sweepLog,       \* callables invoked, in order, in the sweep last started
    written,        \* sweeps whose chain state was forwarded to the output
    openCount,      \* number of initialiseOutputFiles that took effect
    closeCount,     \* number of closeOutputFiles that took effect
    logWrites,      \* number of writeLogFile calls
    logAppends      \* number of appendToLogFile calls

vars == <<options, sampler, dataset, proposalParams, registry, line, pc,
          chainInit, sweep, sweepLog, written, openCount, closeCount,
          logWrites, logAppends>>

---------------------------------------------------------------------------
(* Bounds of the model *)

MaxFixedEffects == 2

MaxSweeps == 8

---------------------------------------------------------------------------
(* Input spaces *)

CovariateTypes == {"Discrete", "Normal", "Mixed", "Unrecognized"}

VarSelectTypes == {"None", "Binary", "Continuous"}

SamplerTypes == {"Truncated", "Slice"}

OutcomeTypes == {"Normal", "Bernoulli"}

FixedAlphaValues == {-10, 0, 10, 25}

ModelOptions ==
    [covariateType : CovariateTypes, varSelectType : VarSelectTypes,
     samplerType : SamplerTypes, outcomeType : OutcomeTypes,
     fixedAlpha : FixedAlphaValues, includeResponse : BOOLEAN,
     responseExtraVar : BOOLEAN]

RunOptions ==
    [nSweeps : {3, MaxSweeps, 30}, nBurn : {0, 10, 50}, nFilter : {1, 5},
     reportBurnIn : BOOLEAN]

ShortRunOptions ==
    [nSweeps : {2}, nBurn : {0, 10}, nFilter : {1}, reportBurnIn : {FALSE}]

ScenarioModelOptions ==
    [covariateType : {"Normal"}, varSelectType : VarSelectTypes,
     samplerType : {"Truncated"}, outcomeType : {"Normal"},
     fixedAlpha : {10}, includeResponse : {TRUE},
     responseExtraVar : {TRUE}]

Merge(m, r) ==
    [covariateType |-> m.covariateType, varSelectType |-> m.varSelectType,
     samplerType |-> m.samplerType, outcomeType |-> m.outcomeType,
     fixedAlpha |-> m.fixedAlpha, includeResponse |-> m.includeResponse,
     responseExtraVar |-> m.responseExtraVar,
     nSweeps |-> r.nSweeps, nBurn |-> r.nBurn, nFilter |-> r.nFilter,
     reportBurnIn |-> r.reportBurnIn]

AllOptions == {Merge(m, r) : m \in ModelOptions, r \in ShortRunOptions}

ScenarioOptions == {Merge(m, r) : m \in ScenarioModelOptions, r \in RunOptions}

DatasetShapes == [loaded : {TRUE}, nFixedEffects : 0..MaxFixedEffects]

NoDataset == [loaded |-> FALSE, nFixedEffects |-> 0]

NoSampler ==
    [configured |-> FALSE, hasMissingData |-> FALSE, nSweeps |-> 0,
     nBurn |-> 0, nFilter |-> 0, reportBurnIn |-> FALSE]

---------------------------------------------------------------------------
(* Proposal composition, lines 110-246 *)

Proposal(name, firstSweep) ==
    [name |-> name, weight |-> 1, repeatCount |-> 1,
     firstActiveSweep |-> firstSweep]

\* mutant: the offset 1 is forgotten
FirstSweepNoOffset(o) == o.nBurn \div 10

\* mutant: the division by 10 is forgotten
FirstSweepNoDivide(o) == 1 + o.nBurn

\* firstSweep=1+(unsigned int)(options.nBurn()/10); the quotient of an
\* unsigned int by 10 is below 2^32 - 1, so the sum cannot wrap
FirstSweep(o) == 1 + (o.nBurn \div 10)

\* the if / else if / else if chain on covariateType (no final else)
IsDiscrete(o) == o.covariateType = "Discrete"

\* mutant: compare() is read as "equal" when it is non-zero
IsNormalInverted(o) == ~IsDiscrete(o) /\ o.covariateType # "Normal"

IsNormal(o) == ~IsDiscrete(o) /\ o.covariateType = "Normal"

\* mutant: the last branch is a plain else
IsMixedPlainElse(o) == ~IsDiscrete(o) /\ ~IsNormal(o)

IsMixed(o) == ~IsDiscrete(o) /\ ~IsNormal(o) /\ o.covariateType = "Mixed"

VarSelect(o) == o.varSelectType # "None"

\* mutant: the test for Continuous is left out
GammaSelectAnyMode(o) == VarSelect(o)

GammaSelect(o) == VarSelect(o) /\ o.varSelectType # "Continuous"

\* mutant: the test of dataset.nFixedEffects() is left out
BetaGateNoDataset(o, d) == o.includeResponse

\* mutant: the test of dataset.nFixedEffects() is off by one
BetaGateOffByOne(o, d) == o.includeResponse /\ d.nFixedEffects > 1

BetaGate(o, d) == o.includeResponse /\ d.nFixedEffects > 0

\* mutant: the boundary 0 is taken as "estimate"
AlphaGateInclusive(o) == o.fixedAlpha <= 0

AlphaGate(o) == o.fixedAlpha < 0

Site(gate, name, firstSweep) == [gate |-> gate, desc |-> Proposal(name, firstSweep)]

\* lines 109-154: the proposals for the active components
ActiveSites(o) ==
    << Site(TRUE, "gibbsForVActive", 1),
       Site(IsDiscrete(o) \/ IsMixed(o), "updateForPhiActive", 1),
       Site(IsNormal(o) \/ IsMixed(o), "gibbsForMuActive", 1),
       Site(IsNormal(o) \/ IsMixed(o), "gibbsForTauActive", 1),
       Site(GammaSelect(o), "gibbsForGammaActive", FirstSweep(o)),
       Site(o.includeResponse, "metropolisHastingsForThetaActive", 1) >>

\* mutant: the updates for alpha and for U are written in the other order
LabelSitesAlphaFirst(o) ==
    << Site(TRUE, "metropolisHastingsForLabels", 1),
       Site(AlphaGate(o), "metropolisHastingsForAlpha", 1),
       Site(o.samplerType # "Truncated", "gibbsForU", 1) >>

\* lines 156-167: labels, slice variables, alpha
LabelSites(o) ==
    << Site(TRUE, "metropolisHastingsForLabels", 1),
       Site(o.samplerType # "Truncated", "gibbsForU", 1),
       Site(AlphaGate(o), "metropolisHastingsForAlpha", 1) >>

\* mutant: the Mixed branch of the inactive block lacks the phi update
InactiveSitesNoMixedPhi(o) ==
    << Site(TRUE, "gibbsForVInActive", 1),
       Site(IsDiscrete(o), "gibbsForPhiInActive", 1),
       Site(IsNormal(o) \/ IsMixed(o), "gibbsForMuInActive", 1),
       Site(IsNormal(o) \/ IsMixed(o), "gibbsForTauInActive", 1),
       Site(GammaSelect(o), "gibbsForGammaInActive", FirstSweep(o)),
       Site(o.includeResponse, "gibbsForThetaInActive", 1) >>

\* lines 169-213: the proposals for the inactive components
InactiveSites(o) ==
    << Site(TRUE, "gibbsForVInActive", 1),
       Site(IsDiscrete(o) \/ IsMixed(o), "gibbsForPhiInActive", 1),
       Site(IsNormal(o) \/ IsMixed(o), "gibbsForMuInActive", 1),
       Site(IsNormal(o) \/ IsMixed(o), "gibbsForTauInActive", 1),
       Site(GammaSelect(o), "gibbsForGammaInActive", FirstSweep(o)),
       Site(o.includeResponse, "gibbsForThetaInActive", 1) >>

\* lines 215-228: fixed effects and extra variation of the response
ResponseSites(o, d) ==
    << Site(BetaGate(o, d), "metropolisHastingsForBeta", 1),
       Site(o.includeResponse /\ o.responseExtraVar, "metropolisHastingsForLambda", 1),
       Site(o.includeResponse /\ o.responseExtraVar, "gibbsForTauEpsilon", 1) >>

\* mutant: the update for Z is written inside the block for a Normal outcome
FinalSitesZConditional(o) ==
    << Site(VarSelect(o), "metropolisHastingsForRhoOmega", FirstSweep(o)),
       Site(o.outcomeType = "Normal", "gibbsForSigmaSqY", 1),
       Site(o.outcomeType = "Normal", "gibbsForZ", 1) >>

\* lines 230-246: rho and omega, sigmaSqY, the allocations
FinalSites(o) ==
    << Site(VarSelect(o), "metropolisHastingsForRhoOmega", FirstSweep(o)),
       Site(o.outcomeType = "Normal", "gibbsForSigmaSqY", 1),
       Site(TRUE, "gibbsForZ", 1) >>

\* The addProposal call sites of profRegr in textual order, each with the
\* condition under which control reaches it.
CallSites(o, d) ==
    ActiveSites(o) \o LabelSites(o) \o InactiveSites(o)
        \o ResponseSites(o, d) \o FinalSites(o)

NSites == Len(CallSites(options, dataset))

\* the next call site, from index i on, that control reaches
NextSite(o, d, i) ==
    CHOOSE j \in i..Len(CallSites(o, d)) :
        /\ CallSites(o, d)[j].gate
        /\ \A k \in i..(j - 1) : ~CallSites(o, d)[k].gate

Names(reg) == {reg[i].name : i \in 1..Len(reg)}

\* mcmcSampler::addProposal accepts a descriptor whose name is new and whose
\* first active sweep is at least 1
AddProposalOk(reg, desc) ==
    /\ desc.name \notin Names(reg)
    /\ desc.firstActiveSweep >= 1

\* the whole registry that composition yields for options o and dataset d
Reached(site) == site.gate

Compose(o, d) ==
    LET reached == SelectSeq(CallSites(o, d), Reached)
    IN  [i \in 1..Len(reached) |-> reached[i].desc]

---------------------------------------------------------------------------
(* The sweep loop of mcmcSampler::run *)

Repeat(x, n) == [i \in 1..n |-> x]

\* the update callables invoked on sweep s, in registry order
RECURSIVE ProposalCalls(_, _)
ProposalCalls(reg, s) ==
    IF reg = << >> THEN << >>
    ELSE (IF s >= Head(reg).firstActiveSweep
          THEN Repeat(Head(reg).name, Head(reg).repeatCount)
          ELSE << >>) \o ProposalCalls(Tail(reg), s)

\* the callables of sweep s: the missing-data updater, then the proposals
SweepCalls(smp, reg, s) ==
    (IF smp.hasMissingData THEN << "updateMissingData" >> ELSE << >>)
        \o ProposalCalls(reg, s)

\* whether the chain state of sweep s is forwarded to the output
WritesOutput(smp, s) ==
    \/ s > smp.nBurn /\ (s - smp.nBurn) % smp.nFilter = 0
    \/ smp.reportBurnIn /\ s <= smp.nBurn

---------------------------------------------------------------------------
(* Initial states *)

InitWith(optionSpace) ==
    /\ options \in optionSpace
    /\ sampler = NoSampler
    /\ dataset = NoDataset
    /\ proposalParams = FALSE
    /\ registry = << >>
    /\ line = 1
    /\ pc = "processCommandLine"
    /\ chainInit = FALSE
    /\ sweep = 0
    /\ sweepLog = << >>
    /\ written = {}
    /\ openCount = 0
    /\ closeCount = 0
    /\ logWrites = 0
    /\ logAppends = 0

Init == InitWith(AllOptions)

InitRun == InitWith(ScenarioOptions)

---------------------------------------------------------------------------
(* Actions of profRegr *)

\* mutant: the burn-in and the thinning interval are exchanged
SetUpSwapped ==
    /\ pc = "processCommandLine"
    /\ sampler' = [configured |-> TRUE, hasMissingData |-> TRUE,
                   nSweeps |-> options.nSweeps, nBurn |-> options.nFilter,
                   nFilter |-> options.nBurn,
                   reportBurnIn |-> options.reportBurnIn]
    /\ pc' = "importData"
    /\ UNCHANGED <<options, dataset, proposalParams, registry, line,
                   chainInit, sweep, sweepLog, written, openCount,
                   closeCount, logWrites, logAppends>>

\* mutant: the model is bound with the missing-data flag false
SetUpNoMissingData ==
    /\ pc = "processCommandLine"
    /\ sampler' = [configured |-> TRUE, hasMissingData |-> FALSE,
                   nSweeps |-> options.nSweeps, nBurn |-> options.nBurn,
                   nFilter |-> options.nFilter,
                   reportBurnIn |-> options.reportBurnIn]
    /\ pc' = "importData"
    /\ UNCHANGED <<options, dataset, proposalParams, registry, line,
                   chainInit, sweep, sweepLog, written, openCount,
                   closeCount, logWrites, logAppends>>

\* lines 67-94: parse the options, bind the model, copy the run settings
SetUp ==
    /\ pc = "processCommandLine"
    /\ sampler' = [configured |-> TRUE, hasMissingData |-> TRUE,
                   nSweeps |-> options.nSweeps, nBurn |-> options.nBurn,
                   nFilter |-> options.nFilter,
                   reportBurnIn |-> options.reportBurnIn]
    /\ pc' = "importData"
    /\ UNCHANGED <<options, dataset, proposalParams, registry, line,
                   chainInit, sweep, sweepLog, written, openCount,
                   closeCount, logWrites, logAppends>>

\* lines 97-100: the importer succeeds and yields the dataset
ImportData ==
    /\ pc = "importData"
    /\ dataset' \in DatasetShapes
    /\ pc' = "proposalParams"
    /\ UNCHANGED <<options, sampler, proposalParams, registry, line,
                   chainInit, sweep, sweepLog, written, openCount,
                   closeCount, logWrites, logAppends>>

\* mutant: the failure of the importer is swallowed and profRegr goes on
ImportDataFailsIgnored ==
    /\ pc = "importData"
    /\ pc' = "proposalParams"
    /\ UNCHANGED <<options, sampler, dataset, proposalParams, registry, line,
                   chainInit, sweep, sweepLog, written, openCount,
                   closeCount, logWrites, logAppends>>

\* line 99: the importer fails; nothing in profRegr handles the failure
ImportDataFails ==
    /\ pc = "importData"
    /\ pc' = "failed"
    /\ UNCHANGED <<options, sampler, dataset, proposalParams, registry, line,
                   chainInit, sweep, sweepLog, written, openCount,
                   closeCount, logWrites, logAppends>>

\* lines 105-107: size the tuning state from the dataset counts
SetProposalParams ==
    /\ pc = "proposalParams"
    /\ proposalParams' = dataset.loaded
    /\ pc' = "addProposal"
    /\ UNCHANGED <<options, sampler, dataset, registry, line, chainInit,
                   sweep, sweepLog, written, openCount, closeCount,
                   logWrites, logAppends>>

\* lines 110-246: the next addProposal call that control reaches; when no
\* later call site is reached, control falls through to line 250
AddProposal ==
    /\ pc = "addProposal"
    /\ LET i == NextSite(options, dataset, line)
           desc == CallSites(options, dataset)[i].desc
           more == \E j \in (i + 1)..NSites :
                       CallSites(options, dataset)[j].gate
       IN  IF AddProposalOk(registry, desc)
           THEN /\ registry' = Append(registry, desc)
                /\ line' = IF more THEN i + 1 ELSE NSites + 1
                /\ pc' = IF more THEN "addProposal"
                                 ELSE "initialiseOutputFiles"
           ELSE /\ pc' = "failed"
                /\ UNCHANGED <<registry, line>>
    /\ UNCHANGED <<options, sampler, dataset, proposalParams, chainInit,
                   sweep, sweepLog, written, openCount, closeCount,
                   logWrites, logAppends>>

\* line 250
InitialiseOutputFiles ==
    /\ pc = "initialiseOutputFiles"
    /\ openCount' = openCount + 1
    /\ pc' = "writeLogFile"
    /\ UNCHANGED <<options, sampler, dataset, proposalParams, registry, line,
                   chainInit, sweep, sweepLog, written, closeCount,
                   logWrites, logAppends>>

\* line 254
WriteLogFile ==
    /\ pc = "writeLogFile"
    /\ logWrites' = logWrites + 1
    /\ pc' = "initialiseChain"
    /\ UNCHANGED <<options, sampler, dataset, proposalParams, registry, line,
                   chainInit, sweep, sweepLog, written, openCount,
                   closeCount, logAppends>>

\* mutant: initialising the chain resets the proposals of the sampler
InitialiseChainResetsRegistry ==
    /\ pc = "initialiseChain"
    /\ chainInit' = TRUE
    /\ registry' = << >>
    /\ pc' = "run"
    /\ UNCHANGED <<options, sampler, dataset, proposalParams, line,
                   sweep, sweepLog, written, openCount, closeCount,
                   logWrites, logAppends>>

\* lines 257-261: the initialiser succeeds
InitialiseChain ==
    /\ pc = "initialiseChain"
    /\ chainInit' = TRUE
    /\ pc' = "run"
    /\ UNCHANGED <<options, sampler, dataset, proposalParams, registry, line,
                   sweep, sweepLog, written, openCount, closeCount,
                   logWrites, logAppends>>

\* line 257: the initialiser fails; nothing in profRegr handles the failure
InitialiseChainFails ==
    /\ pc = "initialiseChain"
    /\ pc' = "failed"
    /\ UNCHANGED <<options, sampler, dataset, proposalParams, registry, line,
                   chainInit, sweep, sweepLog, written, openCount,
                   closeCount, logWrites, logAppends>>

\* mutant: run() is called in place of initialiseChain()
RunBeginEarly ==
    /\ pc \in {"initialiseChain", "run"}
    /\ pc' = "sweeping"
    /\ UNCHANGED <<options, sampler, dataset, proposalParams, registry, line,
                   chainInit, sweep, sweepLog, written, openCount,
                   closeCount, logWrites, logAppends>>

\* line 264: run() is entered
RunBegin ==
    /\ pc = "run"
    /\ pc' = "sweeping"
    /\ UNCHANGED <<options, sampler, dataset, proposalParams, registry, line,
                   chainInit, sweep, sweepLog, written, openCount,
                   closeCount, logWrites, logAppends>>

\* line 264: one whole sweep in which no callable fails
RunSweep ==
    /\ pc = "sweeping"
    /\ sweep < sampler.nSweeps
    /\ sweep' = sweep + 1
    /\ sweepLog' = SweepCalls(sampler, registry, sweep + 1)
    /\ written' = IF WritesOutput(sampler, sweep + 1)
                  THEN written \cup {sweep + 1} ELSE written
    /\ UNCHANGED <<options, sampler, dataset, proposalParams, registry, line,
                   pc, chainInit, openCount, closeCount, logWrites,
                   logAppends>>

\* line 264: the k-th callable of the sweep fails; the failure leaves run()
\* and, nothing in profRegr handling it, profRegr
RunSweepFails ==
    /\ pc = "sweeping"
    /\ sweep < sampler.nSweeps
    /\ \E k \in 1..Len(SweepCalls(sampler, registry, sweep + 1)) :
           sweepLog' = SubSeq(SweepCalls(sampler, registry, sweep + 1), 1, k)
    /\ sweep' = sweep + 1
    /\ pc' = "failed"
    /\ UNCHANGED <<options, sampler, dataset, proposalParams, registry, line,
                   chainInit, written, openCount, closeCount, logWrites,
                   logAppends>>

\* line 264: run() returns after the last sweep
RunEnd ==
    /\ pc = "sweeping"
    /\ sweep >= sampler.nSweeps
    /\ pc' = "appendToLogFile"
    /\ UNCHANGED <<options, sampler, dataset, proposalParams, registry, line,
                   chainInit, sweep, sweepLog, written, openCount,
                   closeCount, logWrites, logAppends>>

\* mutant: the run summary is not appended
AppendToLogFileOmitted ==
    /\ pc = "appendToLogFile"
    /\ pc' = "closeOutputFiles"
    /\ UNCHANGED <<options, sampler, dataset, proposalParams, registry, line,
                   chainInit, sweep, sweepLog, written, openCount,
                   closeCount, logWrites, logAppends>>

\* lines 267-270
AppendToLogFile ==
    /\ pc = "appendToLogFile"
    /\ logAppends' = logAppends + 1
    /\ pc' = "closeOutputFiles"
    /\ UNCHANGED <<options, sampler, dataset, proposalParams, registry, line,
                   chainInit, sweep, sweepLog, written, openCount,
                   closeCount, logWrites>>

\* lines 274-277
CloseOutputFiles ==
    /\ pc = "closeOutputFiles"
    /\ closeCount' = closeCount + 1
    /\ pc' = "done"
    /\ UNCHANGED <<options, sampler, dataset, proposalParams, registry, line,
                   chainInit, sweep, sweepLog, written, openCount,
                   logWrites, logAppends>>

Next ==
    \/ SetUp
    \/ ImportData
    \/ ImportDataFails
    \/ SetProposalParams
    \/ AddProposal
    \/ InitialiseOutputFiles
    \/ WriteLogFile
    \/ InitialiseChain
    \/ InitialiseChainFails
    \/ RunBegin
    \/ RunSweep
    \/ RunSweepFails
    \/ RunEnd
    \/ AppendToLogFile
    \/ CloseOutputFiles

Spec == Init /\ [][Next]_vars

\* profRegr is one thread that runs until it returns or fails
SpecRunFair == InitRun /\ [][Next]_vars /\ WF_vars(Next)

SpecRun == InitRun /\ [][Next]_vars

---------------------------------------------------------------------------
(* Vocabulary of the properties *)

\* composition has passed its last addProposal call
Composed == line > NSites

RegistryNames == [i \in 1..Len(registry) |-> registry[i].name]

Registered(name) == \E i \in 1..Len(registry) : registry[i].name = name

Position(name) == CHOOSE i \in 1..Len(registry) : registry[i].name = name

Terminated == pc \in {"done", "failed"}

VarSelectNames ==
    {"gibbsForGammaActive", "gibbsForGammaInActive",
     "metropolisHastingsForRhoOmega"}

EndToEndScenario ==
    /\ options.covariateType = "Normal"
    /\ options.includeResponse
    /\ options.responseExtraVar
    /\ options.varSelectType = "None"
    /\ options.samplerType = "Truncated"
    /\ options.fixedAlpha = 10
    /\ options.outcomeType = "Normal"

EndToEndNames ==
    << "gibbsForVActive", "gibbsForMuActive", "gibbsForTauActive",
       "metropolisHastingsForThetaActive", "metropolisHastingsForLabels",
       "gibbsForVInActive", "gibbsForMuInActive", "gibbsForTauInActive",
       "gibbsForThetaInActive", "metropolisHastingsForBeta",
       "metropolisHastingsForLambda", "gibbsForTauEpsilon",
       "gibbsForSigmaSqY", "gibbsForZ" >>

NotBeta(name) == name # "metropolisHastingsForBeta"

---------------------------------------------------------------------------
(* C1 *)

\* C1 as stated: in the end-to-end scenario the composed registry is the
\* fourteen listed proposals in the listed order, whatever the dataset shape.
C1_RegistryForEveryShape ==
    (Composed /\ EndToEndScenario) => RegistryNames = EndToEndNames

\* C1 (amended): in the end-to-end scenario the composed registry is the
\* fourteen listed proposals in the listed order when the dataset has at
\* least one fixed effect, and the same list without
\* metropolisHastingsForBeta when it has none; it never holds
\* metropolisHastingsForAlpha or gibbsForU.
C1_EndToEndRegistry ==
    (Composed /\ EndToEndScenario) =>
        /\ RegistryNames = IF dataset.nFixedEffects > 0
                           THEN EndToEndNames
                           ELSE SelectSeq(EndToEndNames, NotBeta)
        /\ ~Registered("metropolisHastingsForAlpha")
        /\ ~Registered("gibbsForU")

C1_Witness ==
    /\ Composed
    /\ EndToEndScenario
    /\ dataset.nFixedEffects > 0
    /\ Len(registry) = 14
    /\ pc = "initialiseOutputFiles"

---------------------------------------------------------------------------
(* C2 *)

\* C2: on every exit path of profRegr on which the output files were opened,
\* normal completion or abort, closeOutputFiles has taken effect exactly once.
C2_ClosedExactlyOnce ==
    (Terminated /\ openCount >= 1) => closeCount = 1

---------------------------------------------------------------------------
(* C3 *)

\* C3: every registered variable-selection proposal has firstActiveSweep
\* 1 + floor(nBurn/10) (6 for nBurn = 50); in a sweep s no proposal with
\* s < firstActiveSweep is invoked, and in a sweep that runs to its end every
\* proposal with s >= firstActiveSweep is invoked.
C3_DeferredActivation ==
    /\ \A i \in 1..Len(registry) :
           registry[i].name \in VarSelectNames =>
               /\ registry[i].firstActiveSweep = 1 + (options.nBurn \div 10)
               /\ options.nBurn = 50 => registry[i].firstActiveSweep = 6
    /\ sweep >= 1 =>
           \A i \in 1..Len(registry) :
               /\ sweep < registry[i].firstActiveSweep =>
                      \A k \in 1..Len(sweepLog) : sweepLog[k] # registry[i].name
               /\ (sweep >= registry[i].firstActiveSweep /\ pc # "failed") =>
                      \E k \in 1..Len(sweepLog) : sweepLog[k] = registry[i].name

C3_Witness ==
    /\ options.varSelectType = "Binary"
    /\ options.nBurn = 50
    /\ pc = "sweeping"
    /\ sweep = 6
    /\ \A n \in VarSelectNames :
           /\ Registered(n)
           /\ registry[Position(n)].firstActiveSweep = 6
           /\ \E k \in 1..Len(sweepLog) : sweepLog[k] = n

---------------------------------------------------------------------------
(* C4 *)

\* C4 as stated: every descriptor of the registry has weight > 0,
\* repeatCount >= 1 and 1 <= firstActiveSweep <= nSweeps.
C4_FirstSweepWithinRun ==
    \A i \in 1..Len(registry) :
        /\ registry[i].weight > 0
        /\ registry[i].repeatCount >= 1
        /\ registry[i].firstActiveSweep >= 1
        /\ registry[i].firstActiveSweep <= options.nSweeps

\* C4 (amended): every descriptor of the registry has weight > 0,
\* repeatCount >= 1 and firstActiveSweep >= 1; firstActiveSweep is 1 for
\* every proposal but the variable-selection ones, and for those it is at
\* most nSweeps exactly when floor(nBurn/10) < nSweeps.
C4_FirstSweepBounds ==
    \A i \in 1..Len(registry) :
        /\ registry[i].weight > 0
        /\ registry[i].repeatCount >= 1
        /\ registry[i].firstActiveSweep >= 1
        /\ registry[i].name \notin VarSelectNames =>
               registry[i].firstActiveSweep = 1
        /\ registry[i].name \in VarSelectNames =>
               (registry[i].firstActiveSweep <= options.nSweeps
                    <=> (options.nBurn \div 10) < options.nSweeps)

C4_Witness ==
    /\ Composed
    /\ Registered("metropolisHastingsForRhoOmega")
    /\ options.nBurn = 50
    /\ options.nSweeps = 3
    /\ registry[Position("metropolisHastingsForRhoOmega")].firstActiveSweep
           > options.nSweeps

---------------------------------------------------------------------------
(* C5 *)

ThinningScenario ==
    /\ options.nBurn = 10
    /\ options.nFilter = 5
    /\ options.nSweeps = 30
    /\ ~options.reportBurnIn

\* the sweeps that ran to their end
CompletedSweeps == IF pc = "failed" THEN 1..(sweep - 1) ELSE 1..sweep

\* C5: with reportBurnIn = false the chain state of a sweep s is written
\* exactly when the sweep ran to its end, s > nBurn and
\* (s - nBurn) mod nFilter = 0; nothing is written for a sweep not yet run or
\* cut short; with nBurn = 10, nFilter = 5, nSweeps = 30 a run that returns
\* from run() has written exactly the sweeps 15, 20, 25 and 30.
C5_Thinning ==
    ~options.reportBurnIn =>
        /\ written \subseteq CompletedSweeps
        /\ \A s \in CompletedSweeps :
               s \in written <=>
                   (s > options.nBurn
                        /\ (s - options.nBurn) % options.nFilter = 0)
        /\ (ThinningScenario
                /\ pc \in {"appendToLogFile", "closeOutputFiles", "done"}) =>
               written = {15, 20, 25, 30}

C5_Witness ==
    /\ ThinningScenario
    /\ pc = "done"
    /\ written = {15, 20, 25, 30}

---------------------------------------------------------------------------
(* C6 *)

Lifecycle ==
    << "Unconfigured", "Configured", "DataLoaded", "ProposalsRegistered",
       "OutputReady", "ChainInitialised", "Running", "Completed" >>

\* the lifecycle state that profRegr is in at position p
PhaseOf(p) ==
    CASE p = "processCommandLine" -> "Unconfigured"
      [] p = "importData" -> "Configured"
      [] p \in {"proposalParams", "addProposal"} -> "DataLoaded"
      [] p = "initialiseOutputFiles" -> "ProposalsRegistered"
      [] p \in {"writeLogFile", "initialiseChain"} -> "OutputReady"
      [] p = "run" -> "ChainInitialised"
      [] p = "sweeping" -> "Running"
      [] p \in {"appendToLogFile", "closeOutputFiles", "done"} -> "Completed"
      [] OTHER -> "Failed"

Rank(phase) == CHOOSE i \in 1..Len(Lifecycle) : Lifecycle[i] = phase

LifecycleOrder ==
    /\ (registry # << >> \/ proposalParams) => dataset.loaded
    /\ registry # << >> => proposalParams
    /\ dataset.loaded => sampler.configured
    /\ openCount >= 1 => Composed
    /\ chainInit => (dataset.loaded /\ Composed /\ openCount = 1)
    /\ (pc = "sweeping" \/ sweep > 0) => chainInit
    /\ PhaseOf(pc) = "Completed" => (chainInit /\ sweep = sampler.nSweeps)

LifecycleStep ==
    \/ pc' = "failed"
    \/ /\ pc # "failed"
       /\ Rank(PhaseOf(pc')) \in {Rank(PhaseOf(pc)), Rank(PhaseOf(pc)) + 1}

\* C6: profRegr passes through Unconfigured, Configured, DataLoaded,
\* ProposalsRegistered, OutputReady, ChainInitialised, Running, Completed in
\* this order, one state at a time and never backwards (a failure ends it):
\* the data is imported and the tuning state sized before the first
\* addProposal, the chain is initialised after the import and the last
\* addProposal, and run() is entered only with the chain initialised.
C6_StrictLifecycle == [] LifecycleOrder /\ [][LifecycleStep]_vars

C6_Witness ==
    /\ pc = "done"
    /\ chainInit
    /\ Composed
    /\ sweep = options.nSweeps
    /\ closeCount = 1

---------------------------------------------------------------------------
(* C7 *)

\* C7: after composition metropolisHastingsForBeta is registered exactly when
\* includeResponse holds and the dataset has at least one fixed effect.
C7_BetaGate ==
    Composed =>
        (Registered("metropolisHastingsForBeta")
             <=> (options.includeResponse /\ dataset.nFixedEffects > 0))

C7_Witness ==
    /\ Composed
    /\ options.includeResponse
    /\ dataset.nFixedEffects = 0
    /\ ~Registered("metropolisHastingsForBeta")
    /\ Registered("gibbsForThetaInActive")

---------------------------------------------------------------------------
(* C8 *)

\* C8: after composition metropolisHastingsForAlpha is registered exactly when
\* fixedAlpha < 0 (so not at 0, 1.0 or 2.5); when registered it comes after
\* metropolisHastingsForLabels, after gibbsForU if that is registered, and
\* immediately before gibbsForVInActive.
C8_AlphaGate ==
    Composed =>
        /\ Registered("metropolisHastingsForAlpha") <=> options.fixedAlpha < 0
        /\ options.fixedAlpha \in {0, 25} =>
               ~Registered("metropolisHastingsForAlpha")
        /\ options.fixedAlpha = -10 => Registered("metropolisHastingsForAlpha")
        /\ Registered("metropolisHastingsForAlpha") =>
               /\ Position("metropolisHastingsForLabels")
                      < Position("metropolisHastingsForAlpha")
               /\ Registered("gibbsForU") =>
                      Position("gibbsForU")
                          < Position("metropolisHastingsForAlpha")
               /\ Position("gibbsForVInActive")
                      = Position("metropolisHastingsForAlpha") + 1

C8_Witness ==
    /\ Composed
    /\ options.fixedAlpha = -10
    /\ Registered("gibbsForU")
    /\ Position("gibbsForU") + 1 = Position("metropolisHastingsForAlpha")

---------------------------------------------------------------------------
(* C9 *)

CovariateBlockNames ==
    {"updateForPhiActive", "gibbsForMuActive", "gibbsForTauActive",
     "gibbsForPhiInActive", "gibbsForMuInActive", "gibbsForTauInActive"}

UnrecognisedCovariateType ==
    options.covariateType \notin {"Discrete", "Normal", "Mixed"}

\* the proposals outside the covariate block that the gates call for
ExpectedOutsideBlock ==
    {"gibbsForVActive", "metropolisHastingsForLabels", "gibbsForVInActive",
     "gibbsForZ"}
    \cup (IF options.varSelectType \notin {"None", "Continuous"}
          THEN {"gibbsForGammaActive", "gibbsForGammaInActive"} ELSE {})
    \cup (IF options.includeResponse
          THEN {"metropolisHastingsForThetaActive", "gibbsForThetaInActive"}
          ELSE {})
    \cup (IF options.samplerType # "Truncated" THEN {"gibbsForU"} ELSE {})
    \cup (IF options.fixedAlpha < 0
          THEN {"metropolisHastingsForAlpha"} ELSE {})
    \cup (IF options.includeResponse /\ dataset.nFixedEffects > 0
          THEN {"metropolisHastingsForBeta"} ELSE {})
    \cup (IF options.includeResponse /\ options.responseExtraVar
          THEN {"metropolisHastingsForLambda", "gibbsForTauEpsilon"}
          ELSE {})
    \cup (IF options.varSelectType # "None"
          THEN {"metropolisHastingsForRhoOmega"} ELSE {})
    \cup (IF options.outcomeType = "Normal"
          THEN {"gibbsForSigmaSqY"} ELSE {})

\* C9: with a covariateType that is none of Discrete, Normal, Mixed no
\* covariate-block proposal is ever registered and no addProposal call fails;
\* after composition the registry holds, once each, exactly the other
\* proposals that their gates call for, and profRegr is able to go on until
\* it ends.
C9_UnrecognisedCovariateType ==
    UnrecognisedCovariateType =>
        /\ Names(registry) \cap CovariateBlockNames = {}
        /\ ~(pc = "failed" /\ dataset.loaded /\ ~Composed)
        /\ Composed =>
               /\ Names(registry) = ExpectedOutsideBlock
               /\ Len(registry) = Cardinality(ExpectedOutsideBlock)
        /\ (Composed /\ ~Terminated) => ENABLED Next

C9_Witness ==
    /\ UnrecognisedCovariateType
    /\ Composed
    /\ Names(registry) \cap CovariateBlockNames = {}
    /\ chainInit
    /\ pc = "sweeping"
    /\ sweep = options.nSweeps

---------------------------------------------------------------------------
(* C10 *)

\* the options and dataset shapes that agree with the current ones on
\* covariateType, varSelectType, includeResponse, samplerType, the sign of
\* fixedAlpha, responseExtraVar, outcomeType, nBurn and on whether
\* nFixedEffects > 0
SameRelevantOptions ==
    {[options EXCEPT !.nSweeps = n, !.nFilter = f, !.reportBurnIn = r,
                     !.fixedAlpha = a] :
        n \in {options.nSweeps, 30}, f \in {options.nFilter, 5},
        r \in BOOLEAN,
        a \in {x \in FixedAlphaValues : (x < 0) = (options.fixedAlpha < 0)}}

SameRelevantShapes ==
    {d \in DatasetShapes :
        (d.nFixedEffects > 0) = (dataset.nFixedEffects > 0)}

\* C10: the registry that the addProposal calls have built when composition
\* ends is the registry composed for every options value and dataset shape
\* that agree with the current ones on the fields listed above: the same
\* descriptors (name, weight, repeat count, first active sweep) at the same
\* positions.
C10_CompositionPure ==
    pc = "initialiseOutputFiles" =>
        \A o \in SameRelevantOptions, d \in SameRelevantShapes :
            Compose(o, d) = registry

C10_Witness ==
    /\ pc = "initialiseOutputFiles"
    /\ dataset.nFixedEffects = 1
    /\ options.fixedAlpha = 10
    /\ options.includeResponse
    /\ Registered("metropolisHastingsForBeta")
    /\ Cardinality(SameRelevantShapes) > 1
    /\ Cardinality(SameRelevantOptions) > 8

---------------------------------------------------------------------------
(* C11 *)

SweepCountState ==
    /\ sweep <= options.nSweeps
    /\ PhaseOf(pc) = "Completed" => sweep = options.nSweeps
    /\ logAppends <= 1
    /\ pc = "closeOutputFiles" => (logAppends = 1 /\ closeCount = 0)
    /\ pc = "done" => (logAppends = 1 /\ closeCount = 1)
    /\ pc = "failed" => logAppends = 0
    /\ (Terminated /\ chainInit /\ CompletedSweeps # 1..options.nSweeps) =>
           pc = "failed"

SweepCountStep ==
    /\ sweep' # sweep => (sweep' = sweep + 1 /\ pc = "sweeping")
    /\ logAppends' # logAppends =>
           /\ logAppends' = logAppends + 1
           /\ PhaseOf(pc) = "Completed"
           /\ sweep = options.nSweeps
           /\ closeCount = 0
           /\ closeCount' = 0
    /\ closeCount' # closeCount => logAppends = 1

\* C11: the sweeps are numbered 1, 2, ... in steps of one and never exceed
\* nSweeps; Completed is reached only with all nSweeps sweeps done, and a run
\* in which nothing fails does reach it and returns; the run summary is
\* appended once, after run() has returned and before the output files are
\* closed; a run that ends without all its sweeps done is a failed one, and a
\* failed run has no summary.
C11_RunsAllSweeps ==
    /\ [] SweepCountState
    /\ [][SweepCountStep]_vars
    /\ ([](pc # "failed") => <>(pc = "done"))

C11_Witness ==
    /\ pc = "done"
    /\ options.nSweeps = 30
    /\ sweep = 30
    /\ logAppends = 1
    /\ closeCount = 1

---------------------------------------------------------------------------
(* C12 *)

\* the calls that sweep s is to make: the missing-data updater, then the
\* registered proposals whose first active sweep has come, in registry order
ExpectedCalls(s) ==
    LET Active(d) == s >= d.firstActiveSweep
        active == SelectSeq(registry, Active)
    IN  << "updateMissingData" >> \o [i \in 1..Len(active) |-> active[i].name]

IsPrefix(a, b) == Len(a) <= Len(b) /\ a = SubSeq(b, 1, Len(a))

SweepCallsState ==
    /\ \A i \in 1..Len(registry) : registry[i].repeatCount = 1
    /\ sweep >= 1 =>
           /\ sweepLog # << >>
           /\ sweepLog[1] = "updateMissingData"
           /\ \A k \in 2..Len(sweepLog) : sweepLog[k] # "updateMissingData"
           /\ pc # "failed" => sweepLog = ExpectedCalls(sweep)
           /\ pc = "failed" => IsPrefix(sweepLog, ExpectedCalls(sweep))
    /\ written \subseteq 1..sweep

SweepCallsStep ==
    (sweep' # sweep /\ sweep >= 1) =>
        /\ sweepLog = ExpectedCalls(sweep)
        /\ written' \ written \subseteq {sweep'}

\* C12: every sweep first calls the missing-data updater, once, and then the
\* proposals whose first active sweep has come, once each (repeatCount is 1
\* for all of them), in the order of the registry; a sweep that fails has
\* made a prefix of these calls; a sweep starts only when the one before has
\* made all its calls, and its output, if any, is written in the same step.
C12_SweepOrder == [] SweepCallsState /\ [][SweepCallsStep]_vars

C12_Witness ==
    /\ pc = "sweeping"
    /\ options.varSelectType = "Binary"
    /\ options.nBurn = 10
    /\ sweep = 2
    /\ Len(sweepLog) = 18
    /\ sweepLog[1] = "updateMissingData"
    /\ sweepLog[2] = "gibbsForVActive"
    /\ sweepLog[5] = "gibbsForGammaActive"
    /\ sweepLog[18] = "gibbsForZ"

---------------------------------------------------------------------------
(* C13 *)

Occurrences(name) ==
    Cardinality({i \in 1..Len(registry) : registry[i].name = name})

\* C13: the first addProposal call registers gibbsForVActive; after
\* composition the last entry of the registry is gibbsForZ, and
\* gibbsForVActive, metropolisHastingsForLabels, gibbsForVInActive and
\* gibbsForZ occur once each, in this order; the last call of every sweep that
\* runs to its end is gibbsForZ.
C13_FirstAndLast ==
    /\ registry # << >> => registry[1].name = "gibbsForVActive"
    /\ Composed =>
           /\ registry # << >>
           /\ registry[Len(registry)].name = "gibbsForZ"
           /\ \A n \in {"gibbsForVActive", "metropolisHastingsForLabels",
                        "gibbsForVInActive", "gibbsForZ"} :
                  Occurrences(n) = 1
           /\ Position("gibbsForVActive")
                  < Position("metropolisHastingsForLabels")
           /\ Position("metropolisHastingsForLabels")
                  < Position("gibbsForVInActive")
           /\ Position("gibbsForVInActive") < Position("gibbsForZ")
    /\ (sweep >= 1 /\ pc # "failed") =>
           sweepLog[Len(sweepLog)] = "gibbsForZ"

C13_Witness ==
    /\ pc = "sweeping"
    /\ sweep = 1
    /\ options.outcomeType = "Bernoulli"
    /\ options.covariateType = "Unrecognized"
    /\ ~options.includeResponse
    /\ options.varSelectType = "None"
    /\ options.samplerType = "Truncated"
    /\ options.fixedAlpha = 0
    /\ RegistryNames = << "gibbsForVActive", "metropolisHastingsForLabels",
                          "gibbsForVInActive", "gibbsForZ" >>
    /\ sweepLog[Len(sweepLog)] = "gibbsForZ"

---------------------------------------------------------------------------
(* C14 *)

\* C14: after composition gibbsForGammaActive and gibbsForGammaInActive are
\* registered exactly when varSelectType is neither None nor Continuous, and
\* metropolisHastingsForRhoOmega exactly when varSelectType is not None, then
\* with firstActiveSweep 1 + floor(nBurn/10).
C14_VarSelectGates ==
    Composed =>
        /\ Registered("gibbsForGammaActive")
               <=> options.varSelectType \notin {"None", "Continuous"}
        /\ Registered("gibbsForGammaInActive")
               <=> options.varSelectType \notin {"None", "Continuous"}
        /\ Registered("metropolisHastingsForRhoOmega")
               <=> options.varSelectType # "None"
        /\ Registered("metropolisHastingsForRhoOmega") =>
               registry[Position("metropolisHastingsForRhoOmega")]
                   .firstActiveSweep = 1 + (options.nBurn \div 10)
        /\ options.varSelectType = "None" =>
               Names(registry) \cap VarSelectNames = {}

C14_Witness ==
    /\ Composed
    /\ options.varSelectType = "Continuous"
    /\ options.nBurn = 10
    /\ Names(registry) \cap VarSelectNames
           = {"metropolisHastingsForRhoOmega"}
    /\ registry[Position("metropolisHastingsForRhoOmega")].firstActiveSweep = 2

---------------------------------------------------------------------------
(* C15 *)

InActiveNameOf(name) ==
    CASE name = "updateForPhiActive" -> "gibbsForPhiInActive"
      [] name = "gibbsForMuActive" -> "gibbsForMuInActive"
      [] name = "gibbsForTauActive" -> "gibbsForTauInActive"
      [] name = "gibbsForGammaActive" -> "gibbsForGammaInActive"
      [] OTHER -> name

InActiveBlock(name) ==
    name \in {"gibbsForPhiInActive", "gibbsForMuInActive",
              "gibbsForTauInActive"}

ActiveBlock(name) ==
    name \in {"updateForPhiActive", "gibbsForMuActive", "gibbsForTauActive"}

ExpectedActiveBlock ==
    CASE options.covariateType = "Discrete" -> << "updateForPhiActive" >>
      [] options.covariateType = "Normal" ->
             << "gibbsForMuActive", "gibbsForTauActive" >>
      [] options.covariateType = "Mixed" ->
             << "updateForPhiActive", "gibbsForMuActive",
                "gibbsForTauActive" >>
      [] OTHER -> << >>

\* C15: after composition the active covariate block is phi for Discrete, mu
\* then tau for Normal, phi, mu, tau for Mixed, and the inactive block holds
\* the inactive counterparts in the same order; gibbsForGammaActive is
\* registered exactly when gibbsForGammaInActive is, with the same
\* firstActiveSweep.
C15_Mirroring ==
    Composed =>
        LET act == SelectSeq(RegistryNames, ActiveBlock)
            inact == SelectSeq(RegistryNames, InActiveBlock)
        IN  /\ act = ExpectedActiveBlock
            /\ inact = [i \in 1..Len(act) |-> InActiveNameOf(act[i])]
            /\ Registered("gibbsForGammaActive")
                   <=> Registered("gibbsForGammaInActive")
            /\ Registered("gibbsForGammaActive") =>
                   registry[Position("gibbsForGammaActive")].firstActiveSweep
                       = registry[Position("gibbsForGammaInActive")]
                             .firstActiveSweep

C15_Witness ==
    /\ Composed
    /\ options.covariateType = "Mixed"
    /\ options.varSelectType = "Binary"
    /\ SelectSeq(RegistryNames, InActiveBlock)
           = << "gibbsForPhiInActive", "gibbsForMuInActive",
                "gibbsForTauInActive" >>
    /\ Registered("gibbsForGammaInActive")

---------------------------------------------------------------------------
(* C16 *)

CanonicalOrder ==
    << "gibbsForVActive", "updateForPhiActive", "gibbsForMuActive",
       "gibbsForTauActive", "gibbsForGammaActive",
       "metropolisHastingsForThetaActive", "metropolisHastingsForLabels",
       "gibbsForU", "metropolisHastingsForAlpha", "gibbsForVInActive",
       "gibbsForPhiInActive", "gibbsForMuInActive", "gibbsForTauInActive",
       "gibbsForGammaInActive", "gibbsForThetaInActive",
       "metropolisHastingsForBeta", "metropolisHastingsForLambda",
       "gibbsForTauEpsilon", "metropolisHastingsForRhoOmega",
       "gibbsForSigmaSqY", "gibbsForZ" >>

CanonicalIndex(name) ==
    CHOOSE i \in 1..Len(CanonicalOrder) : CanonicalOrder[i] = name

\* C16: at every point the names of the registry are names of the canonical
\* sequence, in strictly increasing canonical position.
C16_CanonicalOrder ==
    /\ \A i \in 1..Len(registry) :
           \E k \in 1..Len(CanonicalOrder) :
               CanonicalOrder[k] = registry[i].name
    /\ \A i \in 1..(Len(registry) - 1) :
           CanonicalIndex(registry[i].name)
               < CanonicalIndex(registry[i + 1].name)

C16_Witness ==
    /\ Composed
    /\ RegistryNames = CanonicalOrder

---------------------------------------------------------------------------
(* C17 *)

ImportFailed == pc = "failed" /\ ~dataset.loaded

NothingStarted ==
    /\ registry = << >>
    /\ ~proposalParams
    /\ openCount = 0
    /\ logWrites = 0
    /\ ~chainInit
    /\ sweep = 0
    /\ sweepLog = << >>
    /\ written = {}
    /\ logAppends = 0

\* C17: while no dataset has been imported nothing is registered, opened,
\* initialised or run, and profRegr is not Completed; a failure of importData
\* ends profRegr as failed, and a failed profRegr takes no further step (no
\* retry).
C17_ImportFailure ==
    /\ [](~dataset.loaded =>
              (NothingStarted /\ PhaseOf(pc) \in {"Unconfigured", "Configured",
                                                 "Failed"}))
    /\ [][(pc = "importData" /\ ~dataset'.loaded /\ pc' # pc) =>
              pc' = "failed"]_vars
    /\ [][pc = "failed" => pc' = "failed"]_vars

C17_Witness ==
    /\ ImportFailed
    /\ sampler.configured
    /\ NothingStarted

---------------------------------------------------------------------------
(* C18 *)

\* C18: once composition has ended no step changes the registry, the options,
\* the run settings held by the sampler or the shape of the dataset; the
\* options never change at all.
C18_FrozenAfterComposition ==
    [][/\ options' = options
       /\ Composed => (/\ registry' = registry
                       /\ sampler' = sampler
                       /\ dataset' = dataset
                       /\ line' = line)]_vars

C18_Witness ==
    /\ pc = "done"
    /\ Composed
    /\ Len(registry) = 21
    /\ registry = Compose(options, dataset)
    /\ sweep = options.nSweeps

---------------------------------------------------------------------------
(* C19 *)

\* the descriptor that the next addProposal call passes
NextDescriptor ==
    CallSites(options, dataset)[NextSite(options, dataset, line)].desc

\* C19: throughout composition the names of the registry are pairwise
\* distinct and every firstActiveSweep is at least 1; the descriptor of the
\* next addProposal call has a name not yet in the registry and a
\* firstActiveSweep of at least 1, and profRegr never fails between the
\* import and the end of composition.
C19_AddProposalNeverFails ==
    /\ \A i, j \in 1..Len(registry) :
           registry[i].name = registry[j].name => i = j
    /\ \A i \in 1..Len(registry) : registry[i].firstActiveSweep >= 1
    /\ pc = "addProposal" =>
           /\ \A i \in 1..Len(registry) :
                  registry[i].name # NextDescriptor.name
           /\ NextDescriptor.firstActiveSweep >= 1
    /\ ~(pc = "failed" /\ dataset.loaded /\ ~Composed)

C19_Witness ==
    /\ Composed
    /\ options.covariateType = "Mixed"
    /\ options.varSelectType = "Binary"
    /\ options.nBurn = 0
    /\ Len(registry) = 21
    /\ Cardinality(Names(registry)) = 21
    /\ registry[Position("gibbsForGammaActive")].firstActiveSweep = 1

====
